---- MODULE Spec2Model ----
(***************************************************************************)
(* Model of app.py: the column resolver excel_col_to_index, the conversion *)
(* generate_excel_with_barcodes (cell copy, header label, formatting, the  *)
(* per-row barcode pass) and the button handler of main.                   *)
(*                                                                         *)
(* Text is a sequence of code points (the values of Python's ord), so that *)
(* the comparisons and arithmetic of the source on characters are kept.    *)
(* The character classes are those of Python 3 on the Latin-1 range.       *)
(***************************************************************************)
EXTENDS Integers, Sequences, FiniteSets, TLC

VARIABLES
    phase,                \* "idle" | "running" | "raised" | "returned" | "done"
    pc,                   \* index of the next statement of Program
    exc,                  \* "none" | "ValueError" | "IndexError"
    ean_col_letter,       \* argument of generate_excel_with_barcodes
    barcode_col_letter,   \* argument
    header_row_excel,     \* argument (1-based)
    data_start_row_excel, \* argument (1-based)
    df,                   \* the parsed first sheet: [rows, cols, cells]
    ean_col_idx,          \* local of line 45
    barcode_col_idx,      \* local of line 46
    tmpdir,               \* TRUE once tempfile.mkdtemp() has made the directory
    tmpfiles,             \* rows r whose file barcode_row_{r} is in the directory
    workbook,             \* "none" | "open" | "closed"
    ws_cells,             \* worksheet cell table: <<row, col>> -> value
    ws_images,            \* worksheet image list, in insertion order
    ws_colfmt,            \* columns given a width by set_column
    ws_rowfmt,            \* rows given a height by set_row
    r,                    \* loop variable of the barcode pass
    rowres,               \* row -> what the barcode pass did with the row
    log,                  \* what the except branch printed, in order
    main_result,          \* "none" | "output": result of main, the returned buffer
    ui                    \* "none" | "download" | "error": what main shows

vars == <<phase, pc, exc, ean_col_letter, barcode_col_letter, header_row_excel,
          data_start_row_excel, df, ean_col_idx, barcode_col_idx, tmpdir,
          tmpfiles, workbook, ws_cells, ws_images, ws_colfmt, ws_rowfmt, r,
          rowres, log, main_result, ui>>

----------------------------------------------------------------------------
(* Bounds of the model                                                     *)

MaxLabelLen == 2     \* longest column label built from LabelChars
MaxDigits == 14      \* longest run of digits in a sample cell text
MaxRows == 2         \* rows of the sample sheets
MaxCols == 2         \* columns of the sample sheets

----------------------------------------------------------------------------
(* Python str operations on sequences of code points                       *)

OrdA == 65
OrdZ == 90

\* str.isspace on Latin-1: what str.strip() removes
IsSpace(c) == c \in {9, 10, 11, 12, 13, 28, 29, 30, 31, 32, 133, 160}

\* str.isdigit on Latin-1: 0-9 and the superscripts U+00B2, U+00B3, U+00B9
IsDigit(c) == c \in (48..57) \cup {178, 179, 185}

\* str.upper on one Latin-1 character; U+00DF upper-cases to "SS"
UpperChar(c) ==
    IF c \in 97..122 THEN <<c - 32>>
    ELSE IF c = 223 THEN <<83, 83>>
    ELSE IF c = 181 THEN <<924>>
    ELSE IF c = 255 THEN <<376>>
    ELSE IF c \in 224..254 /\ c # 247 THEN <<c - 32>>
    ELSE <<c>>

RECURSIVE Upper(_)
Upper(s) == IF s = <<>> THEN <<>> ELSE UpperChar(Head(s)) \o Upper(Tail(s))

RECURSIVE LStrip(_)
LStrip(s) == IF s # <<>> /\ IsSpace(Head(s)) THEN LStrip(Tail(s)) ELSE s

RECURSIVE RStrip(_)
RStrip(s) ==
    IF s # <<>> /\ IsSpace(s[Len(s)]) THEN RStrip(SubSeq(s, 1, Len(s) - 1)) ELSE s

Strip(s) == RStrip(LStrip(s))

EndsWith(s, suffix) ==
    /\ Len(s) >= Len(suffix)
    /\ SubSeq(s, Len(s) - Len(suffix) + 1, Len(s)) = suffix

RECURSIVE IntToStr(_)
IntToStr(n) ==
    IF n < 10 THEN <<48 + n>> ELSE IntToStr(n \div 10) \o <<48 + (n % 10)>>

----------------------------------------------------------------------------
(* excel_col_to_index                                                      *)

IsColLetterLoose(ch) == ch <= OrdZ

IsColLetter(ch) == OrdA <= ch /\ ch <= OrdZ

ColStepZeroBased(result, ch) == result * 26 + (ch - OrdA)

ColStep(result, ch) == result * 26 + (ch - OrdA + 1)

\* the for loop of lines 19-22 and the return of line 23
RECURSIVE ColLoop(_, _)
ColLoop(col, result) ==
    IF col = <<>> THEN [raised |-> FALSE, value |-> result - 1]
    ELSE IF ~IsColLetter(Head(col)) THEN [raised |-> TRUE, value |-> 0]
    ELSE ColLoop(Tail(col), ColStep(result, Head(col)))

excel_col_to_index(col) == ColLoop(Upper(Strip(col)), 0)

----------------------------------------------------------------------------
(* Cell values and the code normalizer of the barcode pass                 *)

NaN == [k |-> "nan", s |-> <<>>, n |-> 0]
StrVal(s) == [k |-> "str", s |-> s, n |-> 0]
FloatVal(n) == [k |-> "float", s |-> <<>>, n |-> n]
IntVal(n) == [k |-> "int", s |-> <<>>, n |-> n]

\* pd.isna(val)
IsNa(val) == val.k = "nan"

\* str(val): an integral float below 1e16 prints with ".0"
Str(val) ==
    IF val.k = "float" THEN IntToStr(val.n) \o <<46, 48>>
    ELSE IF val.k = "int" THEN IntToStr(val.n)
    ELSE val.s

DotZero == <<46, 48>>

\* lines 87-94
Normalize(val) ==
    LET t == Strip(Str(val))
        u == IF EndsWith(t, DotZero) THEN SubSeq(t, 1, Len(t) - 2) ELSE t
    IN SelectSeq(u, IsDigit)

SelectSymbologyAtLeast(code) ==
    IF Len(code) >= 13 THEN "EAN13"
    ELSE IF Len(code) = 8 THEN "EAN8"
    ELSE "Code128"

\* lines 100-106
SelectSymbology(code) ==
    IF Len(code) = 13 THEN "EAN13"
    ELSE IF Len(code) = 8 THEN "EAN8"
    ELSE "Code128"

----------------------------------------------------------------------------
(* The input families                                                      *)

\* all sequences over S of length at most n
RECURSIVE SeqsUpTo(_, _)
SeqsUpTo(S, n) ==
    IF n = 0 THEN {<<>>}
    ELSE LET shorter == SeqsUpTo(S, n - 1)
         IN shorter \cup {Append(s, c) : s \in {t \in shorter : Len(t) = n - 1}, c \in S}

\* "A", "B", "Z", "a", " ", "1"
LabelChars == {65, 66, 90, 97, 32, 49}

\* "G", U+00DF, "g ", "-"
ExtraLabels == {<<71>>, <<223>>, <<103, 32>>, <<45>>}

Labels == SeqsUpTo(LabelChars, MaxLabelLen) \cup ExtraLabels

\* "4006381333931" and "1234567"
ScenarioA == <<52, 48, 48, 54, 51, 56, 49, 51, 51, 51, 57, 51, 49>>
ScenarioB == <<49, 50, 51, 52, 53, 54, 55>>

DigitRun(n) == [i \in 1..n |-> ScenarioA[((i - 1) % Len(ScenarioA)) + 1]]

\* "", " ", "x"
TextPrefixes == {<<>>, <<32>>, <<120>>}

\* "", ".0", ".0 ", ".0.0", "x", U+00B2, ".5", " ", "-"
TextSuffixes == {<<>>, <<46, 48>>, <<46, 48, 32>>, <<46, 48, 46, 48>>, <<120>>,
                 <<178>>, <<46, 53>>, <<32>>, <<45>>}

SampleTexts ==
    {p \o DigitRun(n) \o s : p \in TextPrefixes, n \in 0..MaxDigits, s \in TextSuffixes}
        \cup {ScenarioB}

SampleValues ==
    {StrVal(t) : t \in SampleTexts}
        \cup {FloatVal(n) : n \in {0, 7, 1234567, 12345670}}
        \cup {IntVal(n) : n \in {0, 12345670}}
        \cup {NaN}

Sheet(rows, cols, cells) == [rows |-> rows, cols |-> cols, cells |-> cells]

\* one row, one column
OneCellSheet(val) == Sheet(1, 1, [x \in {<<0, 0>>} |-> val])

SheetCoords == (0..(MaxRows - 1)) \X (0..(MaxCols - 1))

\* the text a sample sheet holds at x when the cell is not empty: two digits
\* naming the cell, "10" at (0, 0), "11" at (0, 1), "20" at (1, 0), ...
CellText(x) == <<49 + x[1], 48 + x[2]>>

\* sheets of MaxRows x MaxCols, each cell empty or holding its text
SampleSheets ==
    {Sheet(MaxRows, MaxCols,
           [x \in SheetCoords |-> IF filled[x] THEN StrVal(CellText(x)) ELSE NaN]) :
        filled \in [SheetCoords -> BOOLEAN]}

EmptyMap == [x \in {} |-> NaN]

InitLocals ==
    /\ phase = "idle"
    /\ pc = 1
    /\ exc = "none"
    /\ ean_col_idx = 0
    /\ barcode_col_idx = 0
    /\ tmpdir = FALSE
    /\ tmpfiles = {}
    /\ workbook = "none"
    /\ ws_cells = EmptyMap
    /\ ws_images = <<>>
    /\ ws_colfmt = {}
    /\ ws_rowfmt = {}
    /\ r = 0
    /\ rowres = EmptyMap
    /\ log = <<>>
    /\ main_result = "none"
    /\ ui = "none"

\* any two column labels, on a one-cell sheet
InitLabels ==
    /\ ean_col_letter \in Labels
    /\ barcode_col_letter \in Labels
    /\ header_row_excel = 1
    /\ data_start_row_excel = 1
    /\ df = OneCellSheet(StrVal(<<53>>))

\* any sample value in the source cell, columns "A" and "B"
InitValues ==
    /\ ean_col_letter = <<65>>
    /\ barcode_col_letter = <<66>>
    /\ header_row_excel = 1
    /\ data_start_row_excel \in {1, 2}
    /\ \E val \in SampleValues : df = OneCellSheet(val)

\* any sample sheet, source and destination among the first columns
InitSheets ==
    /\ ean_col_letter \in {<<65>>, <<66>>}
    /\ barcode_col_letter \in {<<65>>, <<66>>, <<67>>}
    /\ header_row_excel \in {1, 2}
    /\ data_start_row_excel \in {1, 2}
    /\ df \in SampleSheets

Init == InitLocals /\ (InitLabels \/ InitValues \/ InitSheets)

----------------------------------------------------------------------------
(* generate_excel_with_barcodes, statement by statement                    *)

ProgramTmpdirFirst ==
    <<"mkdtemp", "resolve_ean", "resolve_barcode", "pad_columns", "workbook",
      "copy", "header", "format", "loop_init", "loop", "close">>

\* the statements of lines 44-128 in their order
Program ==
    <<"resolve_ean", "resolve_barcode", "pad_columns", "mkdtemp", "workbook",
      "copy", "header", "format", "loop_init", "loop", "close">>

At(stmt) == phase = "running" /\ pc \in 1..Len(Program) /\ Program[pc] = stmt

\* stmt has run to its end
Executed(stmt) ==
    phase # "idle" /\ \E i \in 1..Len(Program) : Program[i] = stmt /\ i < pc

header_row_idx == header_row_excel - 1
data_start_idx == data_start_row_excel - 1

\* worksheet.write(row, col, val): xlsxwriter ignores a cell outside the sheet
WsWrite(cells, row, col, val) ==
    IF row < 0 \/ col < 0 THEN cells ELSE (<<row, col>> :> val) @@ cells

\* df.iat[row, col] of a cell the sheet had or a padded one
Cell(row, col) ==
    IF <<row, col>> \in DOMAIN df.cells THEN df.cells[<<row, col>>] ELSE NaN

\* positional column of df.iat: a negative position counts from the end
IatCol(col) == IF col < 0 THEN col + df.cols ELSE col
IatRaises(col) == col >= df.cols \/ col < -df.cols

BarcodeLabel == StrVal(<<66, 97, 114, 99, 111, 100, 101>>)

HeaderCellInEanColumn == <<header_row_idx, ean_col_idx>>

\* where line 71 writes the label
HeaderCell == <<header_row_idx, barcode_col_idx>>

\* the nested loops of lines 63-68: every cell of df that is not NaN is
\* written at its own coordinates; the padded columns hold None throughout
CopyCells(cells) ==
    LET written == {x \in DOMAIN df.cells :
                       /\ x[1] < df.rows
                       /\ x[2] < df.cols
                       /\ ~IsNa(Cell(x[1], x[2]))}
    IN [x \in written \cup DOMAIN cells |->
           IF x \in written THEN Cell(x[1], x[2]) ELSE cells[x]]

AfterRenderErrorBreak(row) == df.rows

\* line 124: continue with the next row
AfterRenderError(row) == row + 1

Locals == <<ean_col_idx, barcode_col_idx, r>>
Inputs == <<ean_col_letter, barcode_col_letter, header_row_excel, data_start_row_excel>>
Worksheet == <<ws_cells, ws_images, ws_colfmt, ws_rowfmt>>
Files == <<tmpdir, tmpfiles>>
Caller == <<main_result, ui>>

\* main, lines 198-208: the button calls the conversion
ButtonClick ==
    /\ phase = "idle"
    /\ phase' = "running"
    /\ UNCHANGED <<pc, exc, Inputs, df, Locals, Files, workbook, Worksheet,
                   rowres, log, Caller>>

Raise(e) ==
    /\ phase' = "raised"
    /\ exc' = e
    /\ UNCHANGED pc

Step ==
    /\ pc' = pc + 1
    /\ UNCHANGED <<phase, exc>>

\* line 45
ResolveEan ==
    /\ At("resolve_ean")
    /\ LET res == excel_col_to_index(ean_col_letter)
       IN IF res.raised
          THEN Raise("ValueError") /\ UNCHANGED ean_col_idx
          ELSE Step /\ ean_col_idx' = res.value
    /\ UNCHANGED <<Inputs, df, barcode_col_idx, r, Files, workbook, Worksheet,
                   rowres, log, Caller>>

\* line 46
ResolveBarcode ==
    /\ At("resolve_barcode")
    /\ LET res == excel_col_to_index(barcode_col_letter)
       IN IF res.raised
          THEN Raise("ValueError") /\ UNCHANGED barcode_col_idx
          ELSE Step /\ barcode_col_idx' = res.value
    /\ UNCHANGED <<Inputs, df, ean_col_idx, r, Files, workbook, Worksheet,
                   rowres, log, Caller>>

\* lines 49-50
PadColumns ==
    /\ At("pad_columns")
    /\ Step
    /\ df' = [df EXCEPT !.cols = IF @ <= barcode_col_idx THEN barcode_col_idx + 1 ELSE @]
    /\ UNCHANGED <<Inputs, Locals, Files, workbook, Worksheet, rowres, log, Caller>>

\* line 53
Mkdtemp ==
    /\ At("mkdtemp")
    /\ Step
    /\ tmpdir' = TRUE
    /\ UNCHANGED <<Inputs, df, Locals, tmpfiles, workbook, Worksheet, rowres,
                   log, Caller>>

\* lines 56-58
OpenWorkbook ==
    /\ At("workbook")
    /\ Step
    /\ workbook' = "open"
    /\ UNCHANGED <<Inputs, df, Locals, Files, Worksheet, rowres, log, Caller>>

\* lines 60-68
Copy ==
    /\ At("copy")
    /\ Step
    /\ ws_cells' = CopyCells(ws_cells)
    /\ UNCHANGED <<Inputs, df, Locals, Files, workbook, ws_images, ws_colfmt,
                   ws_rowfmt, rowres, log, Caller>>

\* line 71
WriteHeader ==
    /\ At("header")
    /\ Step
    /\ ws_cells' = WsWrite(ws_cells, HeaderCell[1], HeaderCell[2], BarcodeLabel)
    /\ UNCHANGED <<Inputs, df, Locals, Files, workbook, ws_images, ws_colfmt,
                   ws_rowfmt, rowres, log, Caller>>

\* lines 74-78
Format ==
    /\ At("format")
    /\ Step
    /\ ws_colfmt' = IF barcode_col_idx < 0 THEN ws_colfmt
                    ELSE ws_colfmt \cup {barcode_col_idx}
    /\ ws_rowfmt' = ws_rowfmt \cup (data_start_idx..(df.rows - 1))
    /\ UNCHANGED <<Inputs, df, Locals, Files, workbook, ws_cells, ws_images,
                   rowres, log, Caller>>

\* line 81, entering the loop
LoopInit ==
    /\ At("loop_init")
    /\ Step
    /\ r' = data_start_idx
    /\ UNCHANGED <<Inputs, df, ean_col_idx, barcode_col_idx, Files, workbook,
                   Worksheet, rowres, log, Caller>>

InLoop == At("loop") /\ r < df.rows

ean_val == Cell(r, IatCol(ean_col_idx))
ean_str == Normalize(ean_val)
bc_class == SelectSymbology(ean_str)

\* bc_class(ean_str, ...) of line 111: python-barcode raises on a character
\* outside the tables of its symbologies, which hold ASCII only
LibraryAccepts(code) == \A i \in 1..Len(code) : code[i] < 128

RowResult(outcome, val, code, sym) ==
    (r :> [outcome |-> outcome, val |-> val, code |-> code, sym |-> sym]) @@ rowres

\* line 82 when the source column is outside the sheet
RowIndexError ==
    /\ InLoop
    /\ IatRaises(ean_col_idx)
    /\ Raise("IndexError")
    /\ UNCHANGED <<Inputs, df, Locals, Files, workbook, Worksheet, rowres, log,
                   Caller>>

\* lines 84-85
RowSkipNa ==
    /\ InLoop
    /\ ~IatRaises(ean_col_idx)
    /\ IsNa(ean_val)
    /\ r' = r + 1
    /\ rowres' = RowResult("skipped", ean_val, <<>>, "none")
    /\ UNCHANGED <<phase, pc, exc, Inputs, df, ean_col_idx, barcode_col_idx,
                   Files, workbook, Worksheet, log, Caller>>

\* lines 87-97
RowSkipEmpty ==
    /\ InLoop
    /\ ~IatRaises(ean_col_idx)
    /\ ~IsNa(ean_val)
    /\ ean_str = <<>>
    /\ r' = r + 1
    /\ rowres' = RowResult("skipped", ean_val, ean_str, "none")
    /\ UNCHANGED <<phase, pc, exc, Inputs, df, ean_col_idx, barcode_col_idx,
                   Files, workbook, Worksheet, log, Caller>>

\* lines 99-120, the barcode library renders the code
RowRendered ==
    /\ InLoop
    /\ ~IatRaises(ean_col_idx)
    /\ ~IsNa(ean_val)
    /\ ean_str # <<>>
    /\ LibraryAccepts(ean_str)
    /\ tmpfiles' = tmpfiles \cup {r}
    \* insert_image: xlsxwriter ignores an image outside the sheet
    /\ ws_images' = IF barcode_col_idx < 0 THEN ws_images
                    ELSE Append(ws_images, [row |-> r, col |-> barcode_col_idx,
                                            file |-> r, sym |-> bc_class,
                                            code |-> ean_str])
    /\ r' = r + 1
    /\ rowres' = RowResult("rendered", ean_val, ean_str, bc_class)
    /\ UNCHANGED <<phase, pc, exc, Inputs, df, ean_col_idx, barcode_col_idx,
                   tmpdir, workbook, ws_cells, ws_colfmt, ws_rowfmt, log, Caller>>

\* lines 108-124, something in the try block raises (an illegal character, a
\* full disk, ...); the file may have been written before
RowRenderFailed ==
    /\ InLoop
    /\ ~IatRaises(ean_col_idx)
    /\ ~IsNa(ean_val)
    /\ ean_str # <<>>
    /\ \E wrote \in BOOLEAN : tmpfiles' = IF wrote THEN tmpfiles \cup {r} ELSE tmpfiles
    /\ log' = Append(log, [row |-> r + 1, code |-> ean_str])
    /\ r' = AfterRenderError(r)
    /\ rowres' = RowResult("failed", ean_val, ean_str, bc_class)
    /\ UNCHANGED <<phase, pc, exc, Inputs, df, ean_col_idx, barcode_col_idx,
                   tmpdir, workbook, Worksheet, Caller>>

\* line 81, the range is exhausted
LoopExit ==
    /\ At("loop")
    /\ r >= df.rows
    /\ Step
    /\ UNCHANGED <<Inputs, df, Locals, Files, workbook, Worksheet, rowres, log,
                   Caller>>

\* lines 126-128
CloseAndReturn ==
    /\ At("close")
    /\ workbook' = "closed"
    /\ phase' = "returned"
    /\ pc' = pc + 1
    /\ main_result' = "output"
    /\ UNCHANGED <<exc, Inputs, df, Locals, Files, Worksheet, rowres, log, ui>>

\* main, lines 210-220
OfferDownload ==
    /\ phase = "returned"
    /\ phase' = "done"
    /\ ui' = "download"
    /\ UNCHANGED <<pc, exc, Inputs, df, Locals, Files, workbook, Worksheet,
                   rowres, log, main_result>>

\* main, lines 221-222
ShowError ==
    /\ phase = "raised"
    /\ phase' = "done"
    /\ ui' = "error"
    /\ UNCHANGED <<pc, exc, Inputs, df, Locals, Files, workbook, Worksheet,
                   rowres, log, main_result>>

Next ==
    \/ ButtonClick
    \/ ResolveEan
    \/ ResolveBarcode
    \/ PadColumns
    \/ Mkdtemp
    \/ OpenWorkbook
    \/ Copy
    \/ WriteHeader
    \/ Format
    \/ LoopInit
    \/ RowIndexError
    \/ RowSkipNa
    \/ RowSkipEmpty
    \/ RowRendered
    \/ RowRenderFailed
    \/ LoopExit
    \/ CloseAndReturn
    \/ OfferDownload
    \/ ShowError

Spec == Init /\ [][Next]_vars

----------------------------------------------------------------------------
(* Properties                                                              *)

Letters == 65..90
DecimalDigits == 48..57

IsDecimalDigit(c) == c \in DecimalDigits

\* a label over A-Z only, at least one letter long
PureLabel(l) == l # <<>> /\ \A i \in 1..Len(l) : l[i] \in Letters

\* the base-26 order of labels: shorter first, then lexicographic
LabelLess(a, b) ==
    \/ Len(a) < Len(b)
    \/ /\ Len(a) = Len(b)
       /\ \E i \in 1..Len(a) :
             /\ a[i] < b[i]
             /\ \A j \in 1..(i - 1) : a[j] = b[j]

\* the label as the resolver reads it holds a character outside A-Z
RejectedLabel(l) ==
    \E i \in 1..Len(Upper(Strip(l))) : Upper(Strip(l))[i] \notin Letters

ImagesOfRow(row) == {i \in DOMAIN ws_images : ws_images[i].row = row}

LoggedRow(row) == \E i \in DOMAIN log : log[i].row = row + 1

\* the text of a present cell, trimmed, with one trailing ".0" removed
TrimmedText(val) ==
    LET t == Strip(Str(val))
    IN IF EndsWith(t, DotZero) THEN SubSeq(t, 1, Len(t) - 2) ELSE t

HasDecimalDigit(t) == \E i \in 1..Len(t) : IsDecimalDigit(t[i])

\* the cells the input holds in a row
InputCellsOfRow(row) == {x \in DOMAIN df.cells : x[1] = row /\ ~IsNa(df.cells[x])}

\* C1: once the cells are copied, and so in the returned output, every
\* non-empty input cell outside the barcode column holds its input value at
\* its own coordinates; the header label, the formatting and the barcode pass
\* leave it alone.
C1_RoundTrip ==
    Executed("copy") =>
        \A x \in DOMAIN df.cells :
            (~IsNa(df.cells[x]) /\ x[2] # barcode_col_idx) =>
                x \in DOMAIN ws_cells /\ ws_cells[x] = df.cells[x]

\* a finished conversion that placed an image, with an input cell beside the
\* header cell and an input cell under the header label
C1_Witness ==
    /\ phase = "done"
    /\ ui = "download"
    /\ ws_images # <<>>
    /\ HeaderCell \in DOMAIN df.cells
    /\ ~IsNa(df.cells[HeaderCell])
    /\ ws_cells[HeaderCell] = BarcodeLabel
    /\ \E x \in DOMAIN df.cells :
          x[1] = header_row_idx /\ x[2] # barcode_col_idx /\ ~IsNa(df.cells[x])

\* the barcode pass treated the row as it treats any row
ProcessedAsUsual(row) ==
    /\ row \in DOMAIN rowres
    /\ rowres[row].val = Cell(row, IatCol(ean_col_idx))
    /\ rowres[row].outcome = "skipped"
          <=> (IsNa(rowres[row].val) \/ Normalize(rowres[row].val) = <<>>)
    /\ rowres[row].outcome = "rendered" =>
          Cardinality(ImagesOfRow(row)) = IF barcode_col_idx < 0 THEN 0 ELSE 1
    /\ rowres[row].outcome = "failed" => ImagesOfRow(row) = {} /\ LoggedRow(row)

\* C2: a rendering failure on a row is caught and logged for that row, places
\* no image in the row, does not abort the conversion, leaves the copied cells
\* of the row in the output, and every later row is still processed; the
\* conversion returns the output workbook, which main offers for download.
C2_RowFailureIsLocal ==
    \A row \in DOMAIN rowres :
        rowres[row].outcome = "failed" =>
            /\ LoggedRow(row)
            /\ ImagesOfRow(row) = {}
            /\ exc = "none"
            /\ phase # "raised"
            /\ \A x \in InputCellsOfRow(row) :
                  /\ x \in DOMAIN ws_cells
                  /\ x # HeaderCell => ws_cells[x] = df.cells[x]
            /\ phase = "running" => r > row
            /\ phase \in {"returned", "done"} =>
                  /\ main_result = "output"
                  /\ workbook = "closed"
                  /\ \A later \in (row + 1)..(df.rows - 1) : ProcessedAsUsual(later)
            /\ phase = "done" => ui = "download"

\* a finished conversion whose first row failed and whose second row rendered
C2_Witness ==
    /\ phase = "done"
    /\ ui = "download"
    /\ \E row \in DOMAIN rowres :
          /\ rowres[row].outcome = "failed"
          /\ InputCellsOfRow(row) # {}
          /\ row + 1 \in DOMAIN rowres
          /\ rowres[row + 1].outcome = "rendered"
          /\ ImagesOfRow(row + 1) # {}

\* C3: a data row whose source cell is empty, or whose trimmed text holds no
\* digit, is skipped without image or error, and images are placed only for
\* data rows with a non-empty code, at most one per row.
C3_NoDigitRowsSkipped ==
    /\ \A row \in DOMAIN rowres :
          (IsNa(rowres[row].val) \/ ~HasDecimalDigit(TrimmedText(rowres[row].val))) =>
              /\ rowres[row].outcome = "skipped"
              /\ ImagesOfRow(row) = {}
              /\ ~LoggedRow(row)
              /\ exc = "none"
    /\ \A i \in DOMAIN ws_images :
          /\ ws_images[i].row >= data_start_idx
          /\ ws_images[i].col = barcode_col_idx
          /\ ws_images[i].code # <<>>
          /\ \A j \in DOMAIN ws_images : ws_images[j].row = ws_images[i].row => j = i

\* C4: the symbology of a row with a non-empty code is decided by the length
\* of the code alone: 13 gives EAN-13, 8 gives EAN-8, any other length gives
\* Code128; "1234567" gets Code128 and no error reaches the user.
C4_SymbologyByLength ==
    /\ \A row \in DOMAIN rowres :
          rowres[row].outcome # "skipped" =>
              /\ Len(rowres[row].code) >= 1
              /\ Len(rowres[row].code) = 13 => rowres[row].sym = "EAN13"
              /\ Len(rowres[row].code) = 8 => rowres[row].sym = "EAN8"
              /\ Len(rowres[row].code) \notin {8, 13} => rowres[row].sym = "Code128"
              /\ rowres[row].code = ScenarioB =>
                    exc = "none" /\ ui # "error" /\ rowres[row].sym = "Code128"
    /\ \A i \in DOMAIN ws_images :
          ws_images[i].sym =
              CASE Len(ws_images[i].code) = 13 -> "EAN13"
                [] Len(ws_images[i].code) = 8 -> "EAN8"
                [] OTHER -> "Code128"

\* "1234567" was rendered and its image placed, the conversion finished
C4_Witness ==
    /\ phase = "done"
    /\ ui = "download"
    /\ \E i \in DOMAIN ws_images :
          ws_images[i].code = ScenarioB /\ ws_images[i].sym = "Code128"

\* C5: the code of a present cell is exactly the decimal digits of its
\* trimmed text with one trailing ".0" removed, holds decimal digits only, and
\* "4006381333931.0" gives "4006381333931", rendered as EAN-13.
C5_NormalizerDigitsOnly ==
    \A row \in DOMAIN rowres :
        ~IsNa(rowres[row].val) =>
            /\ rowres[row].code = SelectSeq(TrimmedText(rowres[row].val), IsDecimalDigit)
            /\ \A i \in 1..Len(rowres[row].code) : IsDecimalDigit(rowres[row].code[i])
            /\ Str(rowres[row].val) = ScenarioA \o DotZero =>
                  rowres[row].code = ScenarioA /\ rowres[row].sym = "EAN13"

\* C6: the resolver is bijective base 26: "A" is 0, "Z" is 25, "AA" is 26,
\* "G" is 6, and on labels over A-Z it is strictly increasing in the base-26
\* order, so distinct labels get distinct indices.
C6_Base26 ==
    /\ Executed("resolve_ean") =>
          /\ ean_col_letter = <<65>> => ean_col_idx = 0
          /\ ean_col_letter = <<90>> => ean_col_idx = 25
          /\ ean_col_letter = <<65, 65>> => ean_col_idx = 26
          /\ ean_col_letter = <<71>> => ean_col_idx = 6
    /\ (Executed("resolve_ean") /\ Executed("resolve_barcode")
            /\ PureLabel(ean_col_letter) /\ PureLabel(barcode_col_letter)) =>
          /\ LabelLess(ean_col_letter, barcode_col_letter) =>
                ean_col_idx < barcode_col_idx
          /\ ean_col_letter # barcode_col_letter => ean_col_idx # barcode_col_idx

\* "Z" and "AA" resolved to neighbouring indices
C6_Witness ==
    /\ Executed("resolve_barcode")
    /\ ean_col_letter = <<90>>
    /\ barcode_col_letter = <<65, 65>>
    /\ ean_col_idx = 25
    /\ barcode_col_idx = 26

\* C7 as stated: a label holding any character outside A-Z, at any position,
\* is rejected by the resolver.
C7_AnyNonLetterRejected ==
    /\ Executed("resolve_ean") =>
          \A i \in 1..Len(ean_col_letter) : ean_col_letter[i] \in Letters
    /\ Executed("resolve_barcode") =>
          \A i \in 1..Len(barcode_col_letter) : barcode_col_letter[i] \in Letters

\* C7 as amended: a label that still holds a character outside A-Z once its
\* surrounding whitespace is trimmed and it is upper-cased is rejected with
\* an error and gets no index.
C7_NonLetterAfterTrimUpperRejected ==
    /\ Executed("resolve_ean") => ~RejectedLabel(ean_col_letter)
    /\ Executed("resolve_barcode") => ~RejectedLabel(barcode_col_letter)
    /\ (phase \in {"raised", "done"} /\ RejectedLabel(ean_col_letter)) =>
          exc = "ValueError" /\ ~Executed("resolve_ean")
    /\ (phase \in {"raised", "done"} /\ ~RejectedLabel(ean_col_letter)
            /\ RejectedLabel(barcode_col_letter)) =>
          exc = "ValueError" /\ ~Executed("resolve_barcode")

\* the label "A1" was rejected at its second character
C7_Witness ==
    /\ phase = "raised"
    /\ exc = "ValueError"
    /\ ean_col_letter = <<65, 49>>
    /\ ~Executed("resolve_ean")

C9_TempFilesReleased ==
    phase = "done" => ~tmpdir /\ tmpfiles = {}

\* C10: every index the resolver returns is >= 0, so past layout resolution
\* both column indices are non-negative and the source cell a row reads is
\* the cell of the configured column.
C10_IndexNonNegative ==
    /\ Executed("resolve_ean") => ean_col_idx >= 0
    /\ Executed("resolve_barcode") => barcode_col_idx >= 0
    /\ \A row \in DOMAIN rowres : rowres[row].val = Cell(row, ean_col_idx)

----------------------------------------------------------------------------
(* Where the refuted statements do hold                                    *)

\* the text of the cell holds none of the superscript digits
PlainText(val) == \A i \in 1..Len(Str(val)) : Str(val)[i] \notin {178, 179, 185}

AllPlainText == \A row \in DOMAIN rowres : PlainText(rowres[row].val)

\* the statement of C3 holds of every run whose source cells hold no
\* superscript digit
C3_OnPlainText == AllPlainText => C3_NoDigitRowsSkipped

\* the statement of C5 holds of every run whose source cells hold no
\* superscript digit
C5_OnPlainText == AllPlainText => C5_NormalizerDigitsOnly

\* the statement of C10 holds of every run whose two labels hold more than
\* whitespace
C10_OnNonEmptyLabels ==
    (Strip(ean_col_letter) # <<>> /\ Strip(barcode_col_letter) # <<>>) =>
        C10_IndexNonNegative

====
